---- MODULE Spec2Model ----
(***************************************************************************)
(* A model of the ring buffer of src/ringbuffer.c: one buffer instance,    *)
(* its control block (size, read_offset, write_offset), its storage, the   *)
(* process-wide errno, the live heap allocations and a record of the last  *)
(* call with its arguments and results.                                    *)
(*                                                                         *)
(* Naming follows the source, which names the transfers from the point of  *)
(* view of the other side: ringbuffer_read_memory copies caller memory     *)
(* INTO the buffer (the specification's WriteFrom) and                     *)
(* ringbuffer_write_memory copies buffer contents OUT to caller memory     *)
(* (ReadInto); ringbuffer_write_fd is DrainToDescriptor and                *)
(* ringbuffer_read_fd is FillFromDescriptor.                               *)
(*                                                                         *)
(* The caller modelled here keeps the lifecycle of the specification:      *)
(* a handle is not used after Destroy, and between Create and the first    *)
(* Flush (where the cursors hold indeterminate values) it only queries     *)
(* the counts, flushes, destroys, or issues a transfer that is rejected    *)
(* before the cursors are read.  Amounts are non-negative, as the header   *)
(* declares them unsigned.                                                 *)
(***************************************************************************)
EXTENDS Integers, Sequences, FiniteSets, TLC

VARIABLES phase, size, read_offset, write_offset, storage, errno, heap, last, np2

vars == <<phase, size, read_offset, write_offset, storage, errno, heap, last, np2>>

rbvars == <<phase, size, read_offset, write_offset, storage, heap>>

(***************************************************************************)
(* Bounds of the model.                                                    *)
(***************************************************************************)
\* largest size requested from Create (rounded up to 1, 2 or 4)
MaxReq == 3
\* largest amount requested from a transfer (above the largest capacity)
MaxAmount == 5
\* the indeterminate cursors left by Create are drawn from 0 .. MaxGarbage
MaxGarbage == 5

\* the cursors and sizes of the buffer machine fit in LowBits bits
LowBits == 8

(***************************************************************************)
(* Program constants.                                                      *)
(***************************************************************************)
\* width of unsigned long, the type of sizes and offsets
WordBits == 64

\* byte values: the code moves bytes without looking at them, so two values
\* (and the mark of a byte never written) tell any two positions apart
Bytes == {0, 1}
Amounts == 0 .. MaxAmount
\* content of a caller's byte that no copy has written
Untouched == -1

ENONE == "0"
EINVAL == "EINVAL"
ENOMEM == "ENOMEM"
EAGAIN == "EAGAIN"
EIO == "EIO"

RECURSIVE TwoTo(_)
TwoTo(n) == IF n = 0 THEN 1 ELSE 2 * TwoTo(n - 1)

(***************************************************************************)
(* unsigned long values as the set of positions of their 1 bits, so that   *)
(* all WordBits bits are kept and arithmetic is modulo 2^WordBits.         *)
(***************************************************************************)
BitPos == 0 .. (WordBits - 1)

SetMin(S) == CHOOSE x \in S : \A y \in S : x <= y
SetMax(S) == CHOOSE x \in S : \A y \in S : x >= y

\* size-- : borrow through the low zeros; 0 wraps to all ones
WordDec(w) ==
    IF w = {} THEN BitPos
    ELSE LET m == SetMin(w) IN (w \ {m}) \cup {i \in BitPos : i < m}

\* size++ : carry through the low ones; all ones wraps to 0
WordInc(w) ==
    IF w = BitPos THEN {}
    ELSE LET z == SetMin(BitPos \ w) IN (w \ {i \in BitPos : i < z}) \cup {z}

\* size >> k
WordShr(w, k) == {i - k : i \in {j \in w : j >= k}}

\* size |= (size >> k)
WordSmear(w, k) == w \cup WordShr(w, k)

\* unsigned comparison a < b
WordLess(a, b) ==
    LET d == (a \ b) \cup (b \ a) IN d # {} /\ SetMax(d) \in b

WordLeq(a, b) == a = b \/ WordLess(a, b)

NatToWord(n) == {i \in 0 .. (LowBits - 1) : (n \div TwoTo(i)) % 2 = 1}

RECURSIVE WordToNat(_)
WordToNat(w) ==
    IF w = {} THEN 0
    ELSE LET m == SetMax(w) IN TwoTo(m) + WordToNat(w \ {m})

next_power_of_two(sz) ==
    LET s0 == WordDec(sz)
        s1 == WordSmear(s0, 1)
        s2 == WordSmear(s1, 2)
        s3 == WordSmear(s2, 4)
        s4 == WordSmear(s3, 8)
        s5 == WordSmear(s4, 16)
        s6 == WordSmear(s5, 32)
    IN  WordInc(s6)

(***************************************************************************)
(* Offset arithmetic of the buffer machine, on small integers.             *)
(***************************************************************************)
RECURSIVE BitAnd(_, _)
BitAnd(a, b) ==
    IF a = 0 \/ b = 0 THEN 0
    ELSE (a % 2) * (b % 2) + 2 * BitAnd(a \div 2, b \div 2)

\* the low bits of an unsigned long sum: the sum is taken modulo
\* 2^WordBits and then masked with size - 1 < 2^LowBits, which keeps only
\* bits that the sum modulo 2^LowBits has too
LowModulus == TwoTo(LowBits)

LowWord(x) == x % LowModulus

\* (offset + amount) & (size - 1)
MaskedAdd(off, amount, sz) == BitAnd(LowWord(off + amount), sz - 1)

\* a fill count that takes coinciding cursors for a full buffer
fill_count_full(r, w, sz) ==
    IF w > r THEN w - r ELSE w + sz - r

ringbuffer_fill_count(r, w, sz) ==
    IF w >= r THEN w - r ELSE w + sz - r

\* a free count that forgets the wrapped case of the fill count
free_count_unwrapped(r, w, sz) == sz - (w - r)

ringbuffer_free_count(r, w, sz) == sz - ringbuffer_fill_count(r, w, sz)

\* a capacity test that lets capacity + 1 through
CapacityExceededLate(amount, sz) == amount > sz + 1

\* if(amount > (long) rb->size)
CapacityExceeded(amount, sz) == amount > sz

\* an amount that is never cut down to what is available
ClampNone(amount, avail) == amount

\* if(amount > avail) amount = avail;
Clamp(amount, avail) == IF amount > avail THEN avail ELSE amount

\* the one or two contiguous runs <<first index, length>> of the span of
\* `amount` bytes that starts at idx; none when the span ends where it starts
Segments(idx, amount, max) ==
    LET end == MaskedAdd(idx, amount, max)
    IN  IF idx < end THEN << <<idx, end - idx>> >>
        ELSE IF idx > end THEN << <<idx, max - idx>>, <<0, end>> >>
        ELSE << >>

RECURSIVE SegTotal(_)
SegTotal(segs) ==
    IF segs = << >> THEN 0 ELSE Head(segs)[2] + SegTotal(Tail(segs))

\* the storage index of the i-th byte (i >= 1) of a segment list
RECURSIVE SegAddr(_, _)
SegAddr(segs, i) ==
    IF i <= Head(segs)[2] THEN Head(segs)[1] + (i - 1)
    ELSE SegAddr(Tail(segs), i - Head(segs)[2])

\* memcpy(buffer + off, &storage[base], len), buffer a sequence (1-based)
MemcpyOut(buffer, off, st, base, len) ==
    [i \in 1 .. Len(buffer) |->
        IF i - 1 >= off /\ i - 1 < off + len
        THEN st[base + (i - 1 - off)] ELSE buffer[i]]

\* memcpy(&storage[base], buffer + off, len)
MemcpyIn(st, base, buffer, off, len) ==
    [j \in DOMAIN st |->
        IF j >= base /\ j < base + len
        THEN buffer[off + (j - base) + 1] ELSE st[j]]

\* a fill that stops one byte short of the end
MemsetShort(st, fill, sz) ==
    [j \in DOMAIN st |-> IF j < sz - 1 THEN fill ELSE st[j]]

\* memset(&rb->storage[0], fill, rb->size)
Memset(st, fill, sz) ==
    [j \in DOMAIN st |-> IF j < sz THEN fill ELSE st[j]]

\* a wrapped copy whose second part lands on the first part
CopyOutOverlap(buffer, st, idx, amount, max) ==
    LET segs == Segments(idx, amount, max)
    IN  IF Len(segs) = 1
        THEN MemcpyOut(buffer, 0, st, segs[1][1], segs[1][2])
        ELSE IF Len(segs) = 2
        THEN MemcpyOut(MemcpyOut(buffer, 0, st, segs[1][1], segs[1][2]),
                       0, st, 0, segs[2][2])
        ELSE buffer

\* the copies of ringbuffer_write_memory: out of storage, into the caller's
CopyOut(buffer, st, idx, amount, max) ==
    LET segs == Segments(idx, amount, max)
    IN  IF Len(segs) = 1
        THEN MemcpyOut(buffer, 0, st, segs[1][1], segs[1][2])
        ELSE IF Len(segs) = 2
        THEN MemcpyOut(MemcpyOut(buffer, 0, st, segs[1][1], segs[1][2]),
                       max - idx, st, 0, segs[2][2])
        ELSE buffer

\* a copy into storage that stops at the end of the storage
CopyInOneSegment(st, buffer, idx, amount, max) ==
    LET segs == Segments(idx, amount, max)
    IN  IF Len(segs) >= 1
        THEN MemcpyIn(st, segs[1][1], buffer, 0, segs[1][2])
        ELSE st

\* the copies of ringbuffer_read_memory: out of the caller's, into storage
CopyIn(st, buffer, idx, amount, max) ==
    LET segs == Segments(idx, amount, max)
    IN  IF Len(segs) = 1
        THEN MemcpyIn(st, segs[1][1], buffer, 0, segs[1][2])
        ELSE IF Len(segs) = 2
        THEN MemcpyIn(MemcpyIn(st, segs[1][1], buffer, 0, segs[1][2]),
                      0, buffer, max - idx, segs[2][2])
        ELSE st

\* an advance that goes back to 0 whenever it reaches the end
AdvanceToZero(off, amount, sz) ==
    IF LowWord(off + amount) >= sz THEN 0 ELSE LowWord(off + amount)

\* an advance without the mask
AdvanceUnmasked(off, amount, sz) == off + amount

\* rb->offset += amount; rb->offset &= rb->size - 1;
Advance(off, amount, sz) == BitAnd(LowWord(off + amount), sz - 1)

(***************************************************************************)
(* The record of the last call.                                            *)
(***************************************************************************)
NoCall ==
    [op |-> "none", amount |-> 0, fill |-> 0, ret |-> 0, r0 |-> 0, w0 |-> 0,
     null |-> FALSE, buf |-> << >>, iov |-> << >>, res |-> 0, fn |-> "none"]

Call(op, amount, ret) == [NoCall EXCEPT !.op = op, !.amount = amount, !.ret = ret]

NoStorage == [j \in {} |-> 0]

NoWord == [in |-> {}, out |-> {}, done |-> FALSE]

Live == phase \in {"created", "ready"}

Init ==
    /\ phase = "none"
    /\ size = 0
    /\ read_offset = 0
    /\ write_offset = 0
    /\ storage = NoStorage
    /\ errno = ENONE
    /\ heap = 0
    /\ last = NoCall
    /\ np2 = NoWord

(***************************************************************************)
(* The operations.                                                         *)
(***************************************************************************)

\* Create: both allocations may fail; the cursors are never assigned and the
\* storage is not cleared, so a successful Create leaves any values there.
ringbuffer_create ==
    /\ phase = "none"
    /\ \E req \in 1 .. MaxReq, ok1 \in BOOLEAN, ok2 \in BOOLEAN :
        IF ~ok1
        THEN /\ errno' = ENOMEM
             /\ last' = Call("create", req, -1)
             /\ UNCHANGED <<rbvars, np2>>
        ELSE LET sz == WordToNat(next_power_of_two(NatToWord(req)))
             IN  /\ size' = sz
                 /\ \E gr \in 0 .. MaxGarbage, gw \in 0 .. MaxGarbage :
                       /\ read_offset' = gr
                       /\ write_offset' = gw
                 /\ IF ~ok2
                    THEN /\ storage' = NoStorage
                         /\ phase' = "failed"
                         /\ heap' = heap + 1
                         /\ errno' = ENOMEM
                         /\ last' = Call("create", req, -1)
                    ELSE /\ storage' \in [0 .. (sz - 1) -> Bytes]
                         /\ phase' = "created"
                         /\ heap' = heap + 2
                         /\ errno' = errno
                         /\ last' = Call("create", req, 0)
                 /\ UNCHANGED np2

\* Destroy of a non-null handle: free(rb->storage); free(rb);
ringbuffer_destroy ==
    /\ phase \in {"created", "ready", "failed"}
    /\ phase' = "none"
    /\ heap' = heap - (IF phase = "failed" THEN 1 ELSE 2)
    /\ size' = 0
    /\ read_offset' = 0
    /\ write_offset' = 0
    /\ storage' = NoStorage
    /\ last' = Call("destroy", 0, 0)
    /\ UNCHANGED <<errno, np2>>

ringbuffer_flush ==
    /\ Live
    /\ \E fill \in Bytes :
        /\ storage' = Memset(storage, fill, size)
        /\ read_offset' = 0
        /\ write_offset' = 0
        /\ phase' = "ready"
        /\ last' = [Call("flush", 0, 0)
                    EXCEPT !.fill = fill, !.r0 = read_offset, !.w0 = write_offset]
    /\ UNCHANGED <<size, errno, heap, np2>>

fill_count ==
    /\ Live
    /\ last' = [Call("fill_count", 0,
                     ringbuffer_fill_count(read_offset, write_offset, size))
                EXCEPT !.r0 = read_offset, !.w0 = write_offset]
    /\ UNCHANGED <<rbvars, errno, np2>>

free_count ==
    /\ Live
    /\ last' = [Call("free_count", 0,
                     ringbuffer_free_count(read_offset, write_offset, size))
                EXCEPT !.r0 = read_offset, !.w0 = write_offset]
    /\ UNCHANGED <<rbvars, errno, np2>>

\* the byte sequences of length n that callers and transports supply: for
\* every two positions one of them holds different bytes there (position
\* i - 1 written in binary, one bit per sequence, and the complements)
Sources(n) ==
    {[i \in 1 .. n |-> (((i - 1) \div k) + b) % 2] :
        k \in {j \in {1, 2, 4, 8} : j = 1 \/ j < n}, b \in Bytes}

\* the caller's destination of `amount` bytes, not yet written
FreshBuffer(amount) == [i \in 1 .. amount |-> Untouched]

\* ReadInto: out of the buffer, into the caller's memory (or nowhere)
ringbuffer_write_memory ==
    /\ Live
    /\ \E amount \in Amounts, null \in BOOLEAN :
        IF CapacityExceeded(amount, size)
        THEN /\ errno' = ENOMEM
             /\ last' = [Call("write_memory", amount, -1)
                         EXCEPT !.r0 = read_offset, !.w0 = write_offset,
                                !.null = null]
             /\ UNCHANGED <<rbvars, np2>>
        ELSE /\ phase = "ready"
             /\ LET n == Clamp(amount,
                              ringbuffer_fill_count(read_offset, write_offset, size))
                    out == IF null THEN << >>
                           ELSE CopyOut(FreshBuffer(amount), storage,
                                        read_offset, n, size)
                IN  /\ read_offset' = Advance(read_offset, n, size)
                    /\ last' = [Call("write_memory", amount, n)
                                EXCEPT !.r0 = read_offset, !.w0 = write_offset,
                                       !.null = null, !.buf = out]
             /\ UNCHANGED <<phase, size, write_offset, storage, heap, errno, np2>>

\* WriteFrom: out of the caller's memory (or nowhere), into the buffer
ringbuffer_read_memory ==
    /\ Live
    /\ \E amount \in Amounts, null \in BOOLEAN :
        IF CapacityExceeded(amount, size)
        THEN /\ errno' = ENOMEM
             /\ last' = [Call("read_memory", amount, -1)
                         EXCEPT !.r0 = read_offset, !.w0 = write_offset,
                                !.null = null]
             /\ UNCHANGED <<rbvars, np2>>
        ELSE /\ phase = "ready"
             /\ \E src \in IF null THEN {<< >>} ELSE Sources(amount) :
                LET n == Clamp(amount,
                               ringbuffer_free_count(read_offset, write_offset, size))
                IN  /\ storage' = IF null THEN storage
                                   ELSE CopyIn(storage, src, write_offset, n, size)
                    /\ write_offset' = Advance(write_offset, n, size)
                    /\ last' = [Call("read_memory", amount, n)
                                EXCEPT !.r0 = read_offset, !.w0 = write_offset,
                                       !.null = null, !.buf = src]
             /\ UNCHANGED <<phase, size, read_offset, heap, errno, np2>>

(***************************************************************************)
(* The descriptor operations.  The transport (writev, readv) is the         *)
(* environment: it takes or delivers any part of what it is offered, or    *)
(* fails with -1 and an error code; a success leaves errno alone.          *)
(***************************************************************************)
TransportErrors == {EAGAIN, EIO}

\* what writev may answer when offered `total` bytes
WritevOutcomes(total) ==
    {[res |-> k, err |-> errno] : k \in (IF total = 0 THEN {0} ELSE 1 .. total)}
        \cup {[res |-> -1, err |-> e] : e \in TransportErrors}

\* what readv may answer when offered room for `total` bytes (0: end of file)
ReadvOutcomes(total) ==
    {[res |-> k, err |-> errno] : k \in 0 .. total}
        \cup {[res |-> -1, err |-> e] : e \in TransportErrors}

\* if(bytes <= 0), bytes an unsigned long: -1 was stored as 2^WordBits - 1
UnsignedNonPositive(res) == res = 0

\* errno != EAGAIN && errno != EWOULDBLOCK (one value on the platform)
NotTransient(e) == e # EAGAIN

\* the received bytes, laid into the segments in order
Scatter(st, iov, data) ==
    [j \in DOMAIN st |->
        IF \E i \in 1 .. Len(data) : SegAddr(iov, i) = j
        THEN data[CHOOSE i \in 1 .. Len(data) : SegAddr(iov, i) = j]
        ELSE st[j]]

\* DrainToDescriptor
ringbuffer_write_fd ==
    /\ Live
    /\ \E amount \in Amounts :
        IF CapacityExceeded(amount, size)
        THEN /\ errno' = ENOMEM
             /\ last' = [Call("write_fd", amount, -1)
                         EXCEPT !.r0 = read_offset, !.w0 = write_offset]
             /\ UNCHANGED <<rbvars, np2>>
        ELSE /\ phase = "ready"
             /\ LET n == Clamp(amount,
                              ringbuffer_free_count(read_offset, write_offset, size))
                    iov == Segments(read_offset, n, size)
                IN  \E o \in WritevOutcomes(SegTotal(iov)) :
                      /\ errno' = o.err
                      /\ IF UnsignedNonPositive(o.res)
                         THEN /\ read_offset' = read_offset
                              /\ last' = [Call("write_fd", amount,
                                               IF NotTransient(o.err) THEN -1 ELSE o.res)
                                          EXCEPT !.r0 = read_offset, !.w0 = write_offset,
                                                 !.iov = iov, !.res = o.res]
                         ELSE /\ read_offset' = Advance(read_offset, o.res, size)
                              /\ last' = [Call("write_fd", amount, o.res)
                                          EXCEPT !.r0 = read_offset, !.w0 = write_offset,
                                                 !.iov = iov, !.res = o.res]
             /\ UNCHANGED <<phase, size, write_offset, storage, heap, np2>>

\* FillFromDescriptor
ringbuffer_read_fd ==
    /\ Live
    /\ \E amount \in Amounts :
        IF CapacityExceeded(amount, size)
        THEN /\ errno' = ENOMEM
             /\ last' = [Call("read_fd", amount, -1)
                         EXCEPT !.r0 = read_offset, !.w0 = write_offset]
             /\ UNCHANGED <<rbvars, np2>>
        ELSE /\ phase = "ready"
             /\ LET n == Clamp(amount,
                              ringbuffer_fill_count(read_offset, write_offset, size))
                    iov == Segments(write_offset, n, size)
                IN  \E o \in ReadvOutcomes(SegTotal(iov)) :
                      /\ errno' = o.err
                      /\ IF UnsignedNonPositive(o.res)
                         THEN /\ write_offset' = write_offset
                              /\ storage' = storage
                              /\ last' = [Call("read_fd", amount,
                                               IF NotTransient(o.err) THEN -1 ELSE o.res)
                                          EXCEPT !.r0 = read_offset, !.w0 = write_offset,
                                                 !.iov = iov, !.res = o.res]
                         ELSE /\ write_offset' = Advance(write_offset, o.res, size)
                              /\ \E data \in Sources(IF o.res > 0 THEN o.res ELSE 0) :
                                    storage' = Scatter(storage, iov, data)
                              /\ last' = [Call("read_fd", amount, o.res)
                                          EXCEPT !.r0 = read_offset, !.w0 = write_offset,
                                                 !.iov = iov, !.res = o.res]
             /\ UNCHANGED <<phase, size, read_offset, heap, np2>>

(***************************************************************************)
(* Calls without a handle.  Every function that takes the handle starts    *)
(* with if(rb == NULL) { errno = EINVAL; return -1; }, whatever its other  *)
(* arguments are and whether or not a buffer exists.                       *)
(***************************************************************************)
HandleFunctions ==
    {"ringbuffer_destroy", "ringbuffer_flush", "ringbuffer_fill_count",
     "ringbuffer_free_count", "ringbuffer_write_memory",
     "ringbuffer_read_memory", "ringbuffer_write_fd", "ringbuffer_read_fd"}

\* the functions with an amount argument
TransferFunctions ==
    {"ringbuffer_write_memory", "ringbuffer_read_memory",
     "ringbuffer_write_fd", "ringbuffer_read_fd"}

\* a null check that fails the call without naming the error
null_handle_silent ==
    \E f \in HandleFunctions :
        /\ last' = [Call("null_handle", 0, -1) EXCEPT !.fn = f]
        /\ UNCHANGED <<rbvars, errno, np2>>

null_handle ==
    \E f \in HandleFunctions :
      \E amount \in IF f \in TransferFunctions THEN {0, MaxAmount} ELSE {0} :
        /\ errno' = EINVAL
        /\ last' = [Call("null_handle", amount, -1)
                    EXCEPT !.fn = f, !.r0 = read_offset, !.w0 = write_offset]
        /\ UNCHANGED <<rbvars, np2>>

Next ==
    \/ ringbuffer_create
    \/ ringbuffer_destroy
    \/ ringbuffer_flush
    \/ fill_count
    \/ free_count
    \/ ringbuffer_write_memory
    \/ ringbuffer_read_memory
    \/ ringbuffer_write_fd
    \/ ringbuffer_read_fd
    \/ null_handle

Spec == Init /\ [][Next]_vars

(***************************************************************************)
(* The rounding routine alone, on full-width words.                        *)
(***************************************************************************)
\* requested sizes around every power of two of the word, and 0
WordInputs ==
    {{}} \cup {{k} : k \in BitPos}
         \cup {{k, 0} : k \in BitPos}
         \cup {0 .. k : k \in BitPos}
         \cup {{k, j} : k \in BitPos, j \in {1, 31, 62}}

InitWord ==
    /\ phase = "none"
    /\ size = 0
    /\ read_offset = 0
    /\ write_offset = 0
    /\ storage = NoStorage
    /\ errno = ENONE
    /\ heap = 0
    /\ last = NoCall
    /\ np2 \in {[in |-> w, out |-> {}, done |-> FALSE] : w \in WordInputs}

round_up ==
    /\ ~np2.done
    /\ np2' = [in |-> np2.in, out |-> next_power_of_two(np2.in), done |-> TRUE]
    /\ UNCHANGED <<rbvars, errno, last>>

request ==
    /\ np2.done
    /\ \E w \in WordInputs : np2' = [in |-> w, out |-> {}, done |-> FALSE]
    /\ UNCHANGED <<rbvars, errno, last>>

NextWord == round_up \/ request

SpecWord == InitWord /\ [][NextWord]_vars

(***************************************************************************)
(* Properties.                                                             *)
(***************************************************************************)
Min(a, b) == IF a < b THEN a ELSE b

\* the counts now, and before the last call
Fill == ringbuffer_fill_count(read_offset, write_offset, size)
Free == ringbuffer_free_count(read_offset, write_offset, size)
Fill0 == ringbuffer_fill_count(last.r0, last.w0, size)
Free0 == ringbuffer_free_count(last.r0, last.w0, size)

\* a transfer call that got past the capacity test
Accepted(c, op) == c.op = op /\ c.amount <= size

\* C1: round trip. When a WriteFrom (ringbuffer_read_memory) of N <= capacity
\* bytes into an empty buffer (both cursors at one offset) is followed at
\* once by a ReadInto (ringbuffer_write_memory) of N bytes, both calls
\* return N and the bytes read are the bytes written, in order.
C1_RoundTrip ==
    [][(/\ Accepted(last, "read_memory") /\ ~last.null
        /\ last.r0 = last.w0
        /\ phase = "ready"
        /\ last'.op = "write_memory" /\ ~last'.null
        /\ last'.amount = last.amount)
       => (/\ last.ret = last.amount
           /\ last'.ret = last.amount
           /\ last'.buf = last.buf)]_vars

\* C2: WriteFrom never overwrites unread data. When the free count is k and
\* a write of amount > k, amount <= capacity, is requested, the call returns
\* k, the k bytes from write_offset on hold the first k source bytes, and
\* every other storage byte, the unread ones among them, is as before.
C2_WriteClamped ==
    [][(/\ last'.op = "read_memory" /\ last'.amount <= size
        /\ last'.amount > Free)
       => LET k == Free
              written == {(write_offset + i) % size : i \in 0 .. (k - 1)}
              unread == {(read_offset + i) % size : i \in 0 .. (Fill - 1)}
          IN  /\ last'.ret = k
              /\ ~last'.null =>
                    \A i \in 0 .. (k - 1) :
                        storage'[(write_offset + i) % size] = last'.buf[i + 1]
              /\ \A j \in unread : storage'[j] = storage[j]
              /\ \A j \in (0 .. (size - 1)) \ written : storage'[j] = storage[j]
              /\ read_offset' = read_offset]_vars

\* C2 happens: a clamped write of at least two bytes that wraps
C2_Witness ==
    /\ Accepted(last, "read_memory") /\ ~last.null
    /\ Fill0 > 0
    /\ last.amount > Free0
    /\ last.ret >= 2
    /\ last.w0 + last.ret > size

\* C3: once a write has used up all free space the buffer is full. After a
\* WriteFrom that was accepted in full and took the whole free count, the
\* free count is 0 and a WriteFrom of one more byte returns 0.
C3_FullAfterExactWrite ==
    [][(/\ Accepted(last, "read_memory")
        /\ phase = "ready"
        /\ last.ret = last.amount
        /\ last.amount = Free0)
       => (/\ Free = 0
           /\ (last'.op = "read_memory" /\ last'.amount = 1) => last'.ret = 0)]_vars

\* C4: on a flushed buffer the fill count and the free count add up to the
\* capacity, as computed from the cursors and as returned by the calls.
C4_CountsAddUp ==
    phase = "ready" =>
        /\ Fill + Free = size
        /\ last.op = "fill_count" => last.ret + Free = size
        /\ last.op = "free_count" => Fill + last.ret = size

\* C4 happens: a free count taken while the unread bytes wrap
C4_Witness ==
    /\ phase = "ready"
    /\ last.op = "free_count"
    /\ write_offset < read_offset
    /\ last.ret < size

IsPowerOfTwo(w) == Cardinality(w) = 1

\* C5: capacity rounding. For every requested size s > 0 of the word, the
\* rounding routine yields a power of two that is >= s and is the smallest
\* such power of two.
C5_RoundsUp ==
    (np2.done /\ np2.in # {}) =>
        /\ IsPowerOfTwo(np2.out)
        /\ WordLeq(np2.in, np2.out)
        /\ \A k \in BitPos : WordLeq(np2.in, {k}) => WordLeq(np2.out, {k})

\* C6: a ReadInto or WriteFrom of more than the capacity fails with -1 and
\* ENOMEM whatever the fill level, and leaves cursors, storage and capacity
\* as they were.
C6_CapacityExceeded ==
    [][(/\ last'.op \in {"write_memory", "read_memory"}
        /\ Live
        /\ last'.amount > size)
       => (/\ last'.ret = -1
           /\ errno' = ENOMEM
           /\ UNCHANGED <<read_offset, write_offset, storage, size>>)]_vars

\* C6 happens: a write of more than the capacity is refused while bytes
\* are unread
C6_Witness ==
    /\ phase = "ready"
    /\ last.op = "read_memory"
    /\ last.amount > size
    /\ last.ret = -1
    /\ Fill > 0

\* C7: ReadInto with a destination and an amount of at most the capacity
\* returns n = min(amount, fill count); the destination holds the n oldest
\* unread bytes in order, storage[(read_offset + i) mod capacity] for
\* i < n, and nothing beyond them.
C7_ReadDelivers ==
    (Accepted(last, "write_memory") /\ ~last.null) =>
        LET n == Min(last.amount, Fill0)
        IN  /\ last.ret = n
            /\ Len(last.buf) = last.amount
            /\ \A i \in 0 .. (n - 1) :
                  last.buf[i + 1] = storage[(last.r0 + i) % size]
            /\ \A i \in n .. (last.amount - 1) : last.buf[i + 1] = Untouched

\* C7 happens: a short read whose bytes cross the end of storage and go on
\* at its start
C7_Witness ==
    /\ Accepted(last, "write_memory") /\ ~last.null
    /\ last.amount > Fill0
    /\ last.ret >= 2
    /\ last.r0 + last.ret > size

\* C8: ReadInto without a destination and an amount of at most the
\* capacity copies nothing, returns n = min(amount, fill count), moves
\* read_offset on by n modulo the capacity, and the fill count drops by n.
C8_ReadSkips ==
    (Accepted(last, "write_memory") /\ last.null) =>
        LET n == Min(last.amount, Fill0)
        IN  /\ last.ret = n
            /\ last.buf = << >>
            /\ read_offset = (last.r0 + n) % size
            /\ write_offset = last.w0
            /\ Fill = Fill0 - n

\* C8 happens: a skip that takes read_offset across the end of storage
C8_Witness ==
    /\ Accepted(last, "write_memory") /\ last.null
    /\ last.ret >= 2
    /\ last.r0 + last.ret > size

\* C9: Flush, from any state of a live buffer, sets every storage byte to
\* the fill byte and both cursors to 0, so that the fill count is 0 and the
\* free count is the capacity; the capacity stays as it was.
C9_FlushResets ==
    [][last'.op = "flush"
       => (/\ size' = size
           /\ DOMAIN storage' = 0 .. (size - 1)
           /\ \A j \in 0 .. (size - 1) : storage'[j] = last'.fill
           /\ read_offset' = 0
           /\ write_offset' = 0
           /\ ringbuffer_fill_count(read_offset', write_offset', size') = 0
           /\ ringbuffer_free_count(read_offset', write_offset', size') = size
           /\ last'.ret = 0)]_vars

\* C9 happens: a flush of a buffer whose storage held other bytes and whose
\* cursors, left by Create, lay outside the storage
C9_Witness ==
    /\ last.op = "flush"
    /\ last.r0 >= size
    /\ last.w0 # last.r0
    /\ size >= 2
    /\ last.fill = 1

\* C10: DrainToDescriptor only sends unread bytes. The segments handed to
\* the vectored write total at most min(amount, fill count) bytes, all of
\* them unread bytes from read_offset on, and read_offset is not moved past
\* write_offset.
C10_DrainOnlyUnread ==
    Accepted(last, "write_fd") =>
        LET total == SegTotal(last.iov)
        IN  /\ total <= Min(last.amount, Fill0)
            /\ \A i \in 1 .. total :
                  SegAddr(last.iov, i) = (last.r0 + i - 1) % size
            /\ last.ret > 0 => last.ret <= Fill0

\* C11: FillFromDescriptor only fills free space. The segments handed to the
\* vectored read total exactly min(amount, free count) bytes, they are the
\* free bytes from write_offset on, none of them is an unread byte, and on
\* an empty buffer a request of at least one byte offers at least one byte.
C11_FillOnlyFree ==
    Accepted(last, "read_fd") =>
        LET total == SegTotal(last.iov)
            unread == {(last.r0 + i) % size : i \in 0 .. (Fill0 - 1)}
        IN  /\ total = Min(last.amount, Free0)
            /\ \A i \in 1 .. total :
                  /\ SegAddr(last.iov, i) = (last.w0 + i - 1) % size
                  /\ SegAddr(last.iov, i) \notin unread
            /\ (Fill0 = 0 /\ last.amount >= 1) => total >= 1

\* a descriptor call that got past the capacity test and made its one
\* vectored call
Transported(c) == Accepted(c, "write_fd") \/ Accepted(c, "read_fd")

\* C12: would-block. When the vectored call of DrainToDescriptor or
\* FillFromDescriptor answers -1 with errno EAGAIN, the operation returns 0
\* and both cursors are where they were.
C12_WouldBlockIsZero ==
    (Transported(last) /\ last.res = -1 /\ errno = EAGAIN)
        => (/\ last.ret = 0
            /\ read_offset = last.r0
            /\ write_offset = last.w0)

\* C13: fatal transport errors. When the vectored call answers -1 with an
\* errno other than EAGAIN, the operation returns -1 and both cursors are
\* where they were; when it answers k > 0, the operation returns k and its
\* cursor has advanced by exactly k, modulo the capacity.
C13_FatalLeavesState ==
    Transported(last) =>
        /\ (last.res = -1 /\ errno # EAGAIN)
              => (/\ last.ret = -1
                  /\ read_offset = last.r0
                  /\ write_offset = last.w0)
        /\ last.res > 0
              => (/\ last.ret = last.res
                  /\ last.op = "write_fd"
                        => (/\ read_offset = (last.r0 + last.res) % size
                            /\ write_offset = last.w0)
                  /\ last.op = "read_fd"
                        => (/\ write_offset = (last.w0 + last.res) % size
                            /\ read_offset = last.r0))

C15_NullHandle ==
    [][last'.op = "null_handle"
       => (/\ last'.fn \in HandleFunctions
           /\ last'.ret = -1
           /\ errno' = EINVAL
           /\ last'.iov = << >>
           /\ last'.buf = << >>
           /\ UNCHANGED rbvars)]_vars

\* C15 happens: FillFromDescriptor without a handle, while a flushed buffer
\* with unread bytes exists and errno held another error
C15_Witness ==
    /\ last.op = "null_handle"
    /\ last.fn = "ringbuffer_read_fd"
    /\ last.amount > 0
    /\ phase = "ready"
    /\ Fill > 0
    /\ errno = EINVAL

\* C16: fill conservation. After the first Flush, a WriteFrom with an amount
\* in 0 .. capacity that returns n raises the fill count by exactly n, and
\* a ReadInto with such an amount that returns n lowers it by exactly n, so
\* that the fill count is the sum of the returns of the writes minus the
\* sum of the returns of the reads.
C16_FillConserved ==
    phase = "ready" =>
        /\ Accepted(last, "read_memory") => Fill = Fill0 + last.ret
        /\ Accepted(last, "write_memory") => Fill = Fill0 - last.ret

\* C17: cursor range. From the first Flush of a buffer whose capacity is a
\* power of two >= 1 on, after every Flush, ReadInto, WriteFrom,
\* DrainToDescriptor and FillFromDescriptor, failed transport calls
\* included, both cursors are in 0 .. capacity - 1, and the capacity is what
\* it was.
C17_CursorRange ==
    [][(/\ phase' = "ready"
           => (/\ size' >= 1 /\ BitAnd(size', size' - 1) = 0
               /\ read_offset' \in 0 .. (size' - 1)
               /\ write_offset' \in 0 .. (size' - 1))
        /\ (Live /\ phase' = "ready") => size' = size)]_vars

\* C17 happens: a failed vectored write took the read cursor from 0 to the
\* last index of the storage
C17_Witness ==
    /\ Accepted(last, "write_fd")
    /\ last.res = -1
    /\ last.r0 = 0
    /\ size >= 2
    /\ read_offset = size - 1

\* the queue that a buffer state stands for: the unread bytes, oldest first
Queue(r, w, st, sz) ==
    [i \in 1 .. ringbuffer_fill_count(r, w, sz) |-> st[(r + i - 1) % sz]]

\* q is p with the first n elements of buf appended
Appended(q, p, buf, n) ==
    /\ Len(q) = Len(p) + n
    /\ \A i \in 1 .. Len(p) : q[i] = p[i]
    /\ \A i \in 1 .. n : q[Len(p) + i] = buf[i]

\* C18: FIFO below capacity. A flushed buffer is a first-in-first-out queue
\* of at most capacity - 1 bytes, the queue being the unread bytes from
\* read_offset on: Flush empties it, a WriteFrom with a non-null source that
\* leaves at least one byte free appends exactly the bytes it accepts, a
\* ReadInto with a non-null destination delivers a prefix of the queue and
\* removes it, and the fill count is the length of the queue. Hence the
\* bytes delivered so far are a prefix of the bytes accepted so far and the
\* fill count is the length of the remainder.
C18_FifoBelowCapacity ==
    [][LET p == Queue(read_offset, write_offset, storage, size)
           q == Queue(read_offset', write_offset', storage', size')
           n == last'.ret
       IN  /\ last'.op = "flush" => q = << >>
           /\ (/\ phase = "ready" /\ last'.op = "read_memory"
               /\ last'.amount <= size /\ ~last'.null
               /\ n < Free)
              => (/\ Appended(q, p, last'.buf, n)
                  /\ Fill' = Len(q)
                  /\ Len(q) <= size - 1)
           /\ (/\ phase = "ready" /\ last'.op = "write_memory"
               /\ last'.amount <= size /\ ~last'.null)
              => (/\ Len(p) = n + Len(q)
                  /\ \A i \in 1 .. n : last'.buf[i] = p[i]
                  /\ \A i \in 1 .. Len(q) : q[i] = p[n + i]
                  /\ Fill' = Len(q))]_vars

\* C18 happens: a ReadInto delivered two different bytes lying across the end
\* of the storage and left a byte in the queue
C18_Witness ==
    /\ Accepted(last, "write_memory") /\ ~last.null
    /\ phase = "ready"
    /\ last.ret >= 2
    /\ last.r0 + last.ret > size
    /\ last.buf[1] # last.buf[2]
    /\ Fill >= 1

\* C19: nothing to transfer. When DrainToDescriptor or FillFromDescriptor has
\* clamped its amount to 0, so that the vectored call gets no segment and
\* answers 0, the operation returns 0 and not -1, whatever errno an earlier
\* operation left.
C19_NothingToTransfer ==
    (Transported(last) /\ last.iov = << >> /\ last.res = 0) => last.ret = 0

\* C20: allocation balance. After Create either the call succeeded and
\* exactly two allocations are live, or it failed with ENOMEM and none is,
\* also when the control block was allocated and the storage was not; after
\* Destroy of a created buffer none is live.
C20_AllocationBalance ==
    /\ last.op = "create"
          => \/ last.ret = 0 /\ heap = 2
             \/ last.ret = -1 /\ errno = ENOMEM /\ heap = 0
    /\ last.op = "destroy" => heap = 0

====
